---------------------------- MODULE Spec2Model ----------------------------
(***************************************************************************)
(* rt_utils: a bounded single-producer/single-consumer channel            *)
(* (src/src/spsc.rs) and a triple buffer (src/src/triple_buffer.rs).      *)
(*                                                                         *)
(* Both data structures are modelled at the granularity of their accesses *)
(* to shared memory: one step per atomic load/store/swap or slot access,  *)
(* with the thread-private computation that follows an access folded into *)
(* the same step.  Memory is sequentially consistent; the Release/Acquire *)
(* pairs of the source order each slot access before/after the cursor     *)
(* (or state word) access it is paired with, which is the program order   *)
(* the steps below follow.                                                 *)
(*                                                                         *)
(* Values are modelled by identity: every value offered to try_send and   *)
(* every value constructed for the triple buffer is a fresh number, so    *)
(* that loss, duplication, reordering and double finalization are all     *)
(* visible.                                                                *)
(***************************************************************************)
EXTENDS Integers, Sequences, FiniteSets, TLC

\* ------------------------------------------------------------------ bounds
\* Largest capacity passed to channel().
MaxCap == 3
\* Number of try_send calls made on a channel.
MaxSends == 5
\* Number of try_recv calls that find the channel empty.
MaxEmptyRecv == 2
\* Number of clear() calls made on a channel.
MaxClears == 1
\* Largest capacity of a channel whose producer calls clear().
MaxClearCap == 2
\* Number of write()/get_mut() calls and guard mutations on a triple buffer.
MaxWrites == 5
\* Number of read() calls on a triple buffer.
MaxReads == 4

VARIABLES
    \* ---- spsc.rs: RingBuffer<T> and its two handles
    size,           \* RingBuffer::size (capacity + 1)
    entries,        \* RingBuffer::entries: slot -> [val, live]
    write_index,    \* RingBuffer::write_index
    read_index,     \* RingBuffer::read_index
    sender_alive,   \* the Sender handle exists
    receiver_alive, \* the Receiver handle exists
    alloc_slots,    \* slots of the allocation made by RingBuffer::new
    freed_slots,    \* slot count handed to the deallocation (0: not released)
    pcS,            \* producer: "idle" | "write" | "store" | "clear"
    s_wi,           \* try_write: local write_index
    s_val,          \* try_write: the offered value
    s_ret,          \* result of the last try_send: "none" | "true" | "false"
    pcR,            \* consumer: "idle" | "read" | "store"
    r_ri,           \* try_read: local read_index
    r_val,          \* try_read: the value moved out of the slot
    r_ret,          \* result of the last try_recv: -1 (no call yet), 0 (None), v (Some(v))
    \* ---- spsc.rs: history of the run
    nextVal,        \* number of values offered to try_send so far
    emptyRecv,      \* number of try_recv calls that returned None
    sent,           \* values for which try_send returned true, in order
    recvd,          \* values returned as Some by try_recv, in order
    rejected,       \* values for which try_send returned false
    held,           \* received values still owned by the receiver's caller
    fin,            \* value -> number of times it was finalized (dropped)
    nClears,        \* number of clear() calls so far
    cleared,        \* values that occupied the buffer when a clear() was called
    raced,          \* some clear() overlapped an operation of the consumer
    ub,             \* a slot that holds no value was read: undefined behaviour,
                    \* after which nothing is defined and the run is not followed
    \* ---- triple_buffer.rs: Internal<T>, Writer<T>, Reader<T>
    buffers,            \* Internal::buffers: slot -> [id, data]
    committed,          \* Internal::committed, the shared state word
    writer_write_index, \* Writer::write_index
    reader_read_index,  \* Reader::read_index
    writer_alive,       \* the Writer handle exists
    reader_alive,       \* the Reader handle exists
    pcW,                \* writer: "idle" | "commit" (in write()) | "guard" (a WriteGuard lives)
    pcRd,               \* reader: "idle" | "swap" (in read(), flag seen set)
    \* ---- triple_buffer.rs: history of the run
    ops,                \* writer-side operations so far (fresh ids and contents)
    nWrites,            \* calls of write() so far
    nReads,             \* calls of read() that have returned
    commits,            \* the slot contents committed so far, in commit order
    rd_slot,            \* slot the last read() returned a reference to
    rd_val,             \* contents of that slot when read() returned
    rd_startLen,        \* number of commits completed when the last read() started
    rd_retLen,          \* number of commits completed when the last read() returned
    rd_quiet,           \* no writer operation overlapped the last read()
    slot_no,            \* slot -> number of the commit that published its contents (0: none)
    rd_no,              \* commit number of the contents the last read() returned
    tbFin               \* value id -> number of times it was finalized

chanVars == <<size, entries, write_index, read_index, sender_alive, receiver_alive,
              alloc_slots, freed_slots, pcS, s_wi, s_val, s_ret, pcR, r_ri, r_val,
              r_ret, nextVal, emptyRecv, sent, recvd, rejected, held, fin,
              nClears, cleared, raced, ub>>

tbVars == <<buffers, committed, writer_write_index, reader_read_index, writer_alive,
            reader_alive, pcW, pcRd, ops, nWrites, nReads, commits, rd_slot, rd_val,
            rd_startLen, rd_retLen, rd_quiet, slot_no, rd_no, tbFin>>

vars == <<chanVars, tbVars>>

\* ------------------------------------------------------------ spsc.rs
\* The values a run can offer to try_send.
Values == 1..MaxSends

\* A slot of raw storage: the bytes it holds (0: never written) and whether
\* it currently owns a value (written by ptr::write, not yet moved out).
EmptySlot == [val |-> 0, live |-> FALSE]

\* Mutant of available_read: the wrapped case forgets the buffer size.
available_read_NoWrap(wi, ri, sz) ==
    IF wi >= ri THEN wi - ri ELSE ri - wi

available_read(wi, ri, sz) ==
    IF wi >= ri THEN wi - ri ELSE wi + sz - ri

\* Mutant of available_write: the slot kept free to tell full from empty is not subtracted.
available_write_NoReserve(wi, ri, sz) ==
    IF wi >= ri THEN ri + sz - wi ELSE ri - wi

available_write(wi, ri, sz) ==
    IF wi >= ri THEN ri + sz - wi - 1 ELSE ri - wi - 1

\* Arc::strong_count(&self.buffer)
strong_count ==
    (IF sender_alive THEN 1 ELSE 0) + (IF receiver_alive THEN 1 ELSE 0)

\* Mutant of is_receiver_active: any live handle counts.
is_receiver_active_AnyHandle == strong_count >= 1

is_receiver_active == strong_count = 2

is_sender_active == strong_count = 2

\* Sender::size / Receiver::size
SenderSize == available_write(write_index, read_index, size)

ReceiverSize == available_read(write_index, read_index, size)

\* Drop of a value: its finalizer runs once more.
Finalize(f, v) ==
    IF v \in DOMAIN f THEN [f EXCEPT ![v] = @ + 1] ELSE f

RECURSIVE FinalizeAll(_, _)
FinalizeAll(f, vs) ==
    IF vs = <<>> THEN f ELSE FinalizeAll(Finalize(f, Head(vs)), Tail(vs))

\* channel(n) / RingBuffer::new(n): n + 1 slots, both cursors 0.
ChannelNew(n) ==
    /\ size = n + 1
    /\ alloc_slots = n + 1
    /\ entries = [i \in 0..n |-> EmptySlot]
    /\ write_index = 0
    /\ read_index = 0
    /\ sender_alive = TRUE
    /\ receiver_alive = TRUE
    /\ freed_slots = 0
    /\ pcS = "idle" /\ s_wi = 0 /\ s_val = 0 /\ s_ret = "none"
    /\ pcR = "idle" /\ r_ri = 0 /\ r_val = 0 /\ r_ret = -1
    /\ nextVal = 0
    /\ emptyRecv = 0
    /\ sent = <<>>
    /\ recvd = <<>>
    /\ rejected = {}
    /\ held = {}
    /\ fin = [v \in Values |-> 0]
    /\ nClears = 0
    /\ cleared = {}
    /\ raced = FALSE
    /\ ub = FALSE

\* A channel of any capacity from 1 to MaxCap (RingBuffer::new asserts n > 0).
ChannelInit == \E n \in 1..MaxCap : ChannelNew(n)

\* Mutant of TrySendBegin: the value is written into the slot before the full check.
TrySendBegin_WriteFirst ==
    /\ ~ub
    /\ sender_alive /\ pcS = "idle" /\ nextVal < MaxSends
    /\ nextVal' = nextVal + 1
    /\ IF available_write(write_index, read_index, size) = 0
       THEN /\ s_ret' = "false"
            /\ rejected' = rejected \cup {nextVal + 1}
            /\ fin' = Finalize(fin, nextVal + 1)
            /\ UNCHANGED <<pcS, s_wi, s_val>>
       ELSE /\ pcS' = "write"
            /\ s_wi' = write_index
            /\ s_val' = nextVal + 1
            /\ UNCHANGED <<s_ret, rejected, fin>>
    /\ entries' = [entries EXCEPT ![write_index] = [val |-> nextVal + 1, live |-> TRUE]]
    /\ UNCHANGED <<size, write_index, read_index, sender_alive,
                   receiver_alive, alloc_slots, freed_slots, pcR, r_ri, r_val,
                   r_ret, emptyRecv, sent, recvd, held>>
    /\ UNCHANGED <<nClears, cleared, raced, ub>>
    /\ UNCHANGED tbVars

\* Mutant of TrySendBegin: on a full channel try_send waits for the consumer to make room.
TrySendBegin_Blocking ==
    /\ ~ub
    /\ sender_alive /\ pcS = "idle" /\ nextVal < MaxSends
    /\ nextVal' = nextVal + 1
    /\ IF available_write(write_index, read_index, size) = 0
       THEN /\ FALSE /\ s_ret' = "false"
            /\ rejected' = rejected \cup {nextVal + 1}
            /\ fin' = Finalize(fin, nextVal + 1)
            /\ UNCHANGED <<pcS, s_wi, s_val>>
       ELSE /\ pcS' = "write"
            /\ s_wi' = write_index
            /\ s_val' = nextVal + 1
            /\ UNCHANGED <<s_ret, rejected, fin>>
    /\ UNCHANGED <<size, entries, write_index, read_index, sender_alive,
                   receiver_alive, alloc_slots, freed_slots, pcR, r_ri, r_val,
                   r_ret, emptyRecv, sent, recvd, held>>
    /\ UNCHANGED <<nClears, cleared, raced, ub>>
    /\ UNCHANGED tbVars

\* try_write, lines 99-104: load both cursors; on a full buffer return false,
\* dropping the offered value.
TrySendBegin ==
    /\ ~ub
    /\ sender_alive /\ pcS = "idle" /\ nextVal < MaxSends
    /\ nextVal' = nextVal + 1
    /\ IF available_write(write_index, read_index, size) = 0
       THEN /\ s_ret' = "false"
            /\ rejected' = rejected \cup {nextVal + 1}
            /\ fin' = Finalize(fin, nextVal + 1)
            /\ UNCHANGED <<pcS, s_wi, s_val>>
       ELSE /\ pcS' = "write"
            /\ s_wi' = write_index
            /\ s_val' = nextVal + 1
            /\ UNCHANGED <<s_ret, rejected, fin>>
    /\ UNCHANGED <<size, entries, write_index, read_index, sender_alive,
                   receiver_alive, alloc_slots, freed_slots, pcR, r_ri, r_val,
                   r_ret, emptyRecv, sent, recvd, held>>
    /\ UNCHANGED <<nClears, cleared, raced, ub>>
    /\ UNCHANGED tbVars

\* try_write, line 106: ptr::write(entries + write_index, value)
TrySendWrite ==
    /\ ~ub
    /\ pcS = "write"
    /\ entries' = [entries EXCEPT ![s_wi] = [val |-> s_val, live |-> TRUE]]
    /\ pcS' = "store"
    /\ UNCHANGED <<size, write_index, read_index, sender_alive, receiver_alive,
                   alloc_slots, freed_slots, s_wi, s_val, s_ret, pcR, r_ri, r_val,
                   r_ret, nextVal, emptyRecv, sent, recvd, rejected, held, fin>>
    /\ UNCHANGED <<nClears, cleared, raced, ub>>
    /\ UNCHANGED tbVars

\* Mutant of TrySendStore: the write cursor is advanced without wrapping.
TrySendStore_NoWrap ==
    /\ ~ub
    /\ pcS = "store"
    /\ write_index' = s_wi + 1
    /\ pcS' = "idle"
    /\ s_ret' = "true"
    /\ sent' = Append(sent, s_val)
    /\ UNCHANGED <<size, entries, read_index, sender_alive, receiver_alive,
                   alloc_slots, freed_slots, s_wi, s_val, pcR, r_ri, r_val, r_ret,
                   nextVal, emptyRecv, recvd, rejected, held, fin>>
    /\ UNCHANGED <<nClears, cleared, raced, ub>>
    /\ UNCHANGED tbVars

\* try_write, lines 108-111: publish the advanced write cursor, return true.
TrySendStore ==
    /\ ~ub
    /\ pcS = "store"
    /\ write_index' = (s_wi + 1) % size
    /\ pcS' = "idle"
    /\ s_ret' = "true"
    /\ sent' = Append(sent, s_val)
    /\ UNCHANGED <<size, entries, read_index, sender_alive, receiver_alive,
                   alloc_slots, freed_slots, s_wi, s_val, pcR, r_ri, r_val, r_ret,
                   nextVal, emptyRecv, recvd, rejected, held, fin>>
    /\ UNCHANGED <<nClears, cleared, raced, ub>>
    /\ UNCHANGED tbVars

\* Mutant of TryRecvBegin: the empty test never succeeds.
TryRecvBegin_NoEmptyCheck ==
    /\ ~ub
    /\ receiver_alive /\ pcR = "idle"
    /\ IF available_read(write_index, read_index, size) < 0
       THEN /\ emptyRecv < MaxEmptyRecv
            /\ emptyRecv' = emptyRecv + 1
            /\ r_ret' = 0
            /\ UNCHANGED <<pcR, r_ri>>
       ELSE /\ pcR' = "read"
            /\ r_ri' = read_index
            /\ UNCHANGED <<r_ret, emptyRecv>>
    /\ UNCHANGED <<size, entries, write_index, read_index, sender_alive,
                   receiver_alive, alloc_slots, freed_slots, pcS, s_wi, s_val,
                   s_ret, r_val, nextVal, sent, recvd, rejected, held, fin>>
    /\ raced' = (raced \/ pcS = "clear")
    /\ UNCHANGED <<nClears, cleared, ub>>
    /\ UNCHANGED tbVars

\* try_read, lines 115-120: load both cursors; on an empty buffer return None.
TryRecvBegin ==
    /\ ~ub
    /\ receiver_alive /\ pcR = "idle"
    /\ IF available_read(write_index, read_index, size) = 0
       THEN /\ emptyRecv < MaxEmptyRecv
            /\ emptyRecv' = emptyRecv + 1
            /\ r_ret' = 0
            /\ UNCHANGED <<pcR, r_ri>>
       ELSE /\ pcR' = "read"
            /\ r_ri' = read_index
            /\ UNCHANGED <<r_ret, emptyRecv>>
    /\ UNCHANGED <<size, entries, write_index, read_index, sender_alive,
                   receiver_alive, alloc_slots, freed_slots, pcS, s_wi, s_val,
                   s_ret, r_val, nextVal, sent, recvd, rejected, held, fin>>
    /\ raced' = (raced \/ pcS = "clear")
    /\ UNCHANGED <<nClears, cleared, ub>>
    /\ UNCHANGED tbVars

\* The bit patterns a slot's bytes can hold: those of the values offered, or
\* (0) bytes that are none of them.
Garbage == 0..MaxSends

\* ptr::read of a slot: the value it holds; reading a slot that holds none
\* (never written, or already moved out) is undefined and yields any bytes.
SlotRead(slot) == IF slot.live THEN {slot.val} ELSE Garbage

\* try_read, line 122: ptr::read(entries + read_index) moves the value out.
TryRecvRead ==
    /\ ~ub
    /\ pcR = "read"
    /\ \E v \in SlotRead(entries[r_ri]) : r_val' = v
    /\ ub' = (ub \/ ~entries[r_ri].live)
    /\ raced' = (raced \/ pcS = "clear")
    /\ UNCHANGED <<nClears, cleared>>
    /\ entries' = [entries EXCEPT ![r_ri].live = FALSE]
    /\ pcR' = "store"
    /\ UNCHANGED <<size, write_index, read_index, sender_alive, receiver_alive,
                   alloc_slots, freed_slots, pcS, s_wi, s_val, s_ret, r_ri, r_ret,
                   nextVal, emptyRecv, sent, recvd, rejected, held, fin>>
    /\ UNCHANGED tbVars

\* Mutant of TryRecvStore: the read cursor is stored back without being advanced.
TryRecvStore_NoAdvance ==
    /\ ~ub
    /\ pcR = "store"
    /\ read_index' = r_ri
    /\ pcR' = "idle"
    /\ r_ret' = r_val
    /\ recvd' = Append(recvd, r_val)
    /\ held' = held \cup {r_val}
    /\ UNCHANGED <<size, entries, write_index, sender_alive, receiver_alive,
                   alloc_slots, freed_slots, pcS, s_wi, s_val, s_ret, r_ri, r_val,
                   nextVal, emptyRecv, sent, rejected, fin>>
    /\ raced' = (raced \/ pcS = "clear")
    /\ UNCHANGED <<nClears, cleared, ub>>
    /\ UNCHANGED tbVars

\* try_read, lines 124-127: publish the advanced read cursor, return Some(value).
TryRecvStore ==
    /\ ~ub
    /\ pcR = "store"
    /\ read_index' = (r_ri + 1) % size
    /\ pcR' = "idle"
    /\ r_ret' = r_val
    /\ recvd' = Append(recvd, r_val)
    /\ held' = held \cup {r_val}
    /\ UNCHANGED <<size, entries, write_index, sender_alive, receiver_alive,
                   alloc_slots, freed_slots, pcS, s_wi, s_val, s_ret, r_ri, r_val,
                   nextVal, emptyRecv, sent, rejected, fin>>
    /\ raced' = (raced \/ pcS = "clear")
    /\ UNCHANGED <<nClears, cleared, ub>>
    /\ UNCHANGED tbVars

\* The caller's owner of a received value goes out of scope.
DropReceived ==
    /\ ~ub
    /\ \E v \in held :
        /\ held' = held \ {v}
        /\ fin' = Finalize(fin, v)
    /\ UNCHANGED <<size, entries, write_index, read_index, sender_alive,
                   receiver_alive, alloc_slots, freed_slots, pcS, s_wi, s_val,
                   s_ret, pcR, r_ri, r_val, r_ret, nextVal, emptyRecv, sent, recvd,
                   rejected>>
    /\ UNCHANGED <<nClears, cleared, raced, ub>>
    /\ UNCHANGED tbVars

\* Drop for RingBuffer, line 147: the values `while self.try_read().is_some() {}`
\* moves out, in order, starting from cursor ri.
RECURSIVE DrainValues(_, _, _, _)
DrainValues(e, wi, ri, sz) ==
    IF available_read(wi, ri, sz) = 0
    THEN <<>>
    ELSE <<e[ri].val>> \o DrainValues(e, wi, (ri + 1) % sz, sz)

\* The slots that drain visits, in order.
RECURSIVE DrainSlots(_, _, _)
DrainSlots(wi, ri, sz) ==
    IF available_read(wi, ri, sz) = 0
    THEN <<>>
    ELSE <<ri>> \o DrainSlots(wi, (ri + 1) % sz, sz)

\* The sequences of values that drain can move out: one per visited slot,
\* any bytes for a slot that holds no value.
RECURSIVE DrainOutcomes(_, _, _, _)
DrainOutcomes(e, wi, ri, sz) ==
    IF available_read(wi, ri, sz) = 0
    THEN {<<>>}
    ELSE {<<v>> \o rest : v \in SlotRead(e[ri]),
                          rest \in DrainOutcomes(e, wi, (ri + 1) % sz, sz)}

\* Drop for RingBuffer, line 149: the capacity given to Vec::from_raw_parts.
ReleasedSlots(sz) == sz + 1

\* Mutant of RingBufferDrop: the storage is released without draining the unread values.
RingBufferDrop_NoDrain ==
    /\ fin' = fin
    /\ entries' = [i \in DOMAIN entries |->
                     IF \E k \in 1..available_read(write_index, read_index, size) :
                            DrainSlots(write_index, read_index, size)[k] = i
                     THEN [entries[i] EXCEPT !.live = FALSE]
                     ELSE entries[i]]
    /\ ub' = (ub \/ \E k \in 1..available_read(write_index, read_index, size) :
                       ~entries[DrainSlots(write_index, read_index, size)[k]].live)
    /\ read_index' = write_index
    /\ freed_slots' = ReleasedSlots(size)

\* Drop for RingBuffer (run when the last handle is dropped): drain and
\* drop every unread value, then release the storage.
RingBufferDrop ==
    /\ \E vs \in DrainOutcomes(entries, write_index, read_index, size) :
          fin' = FinalizeAll(fin, vs)
    /\ entries' = [i \in DOMAIN entries |->
                     IF \E k \in 1..available_read(write_index, read_index, size) :
                            DrainSlots(write_index, read_index, size)[k] = i
                     THEN [entries[i] EXCEPT !.live = FALSE]
                     ELSE entries[i]]
    /\ ub' = (ub \/ \E k \in 1..available_read(write_index, read_index, size) :
                       ~entries[DrainSlots(write_index, read_index, size)[k]].live)
    /\ read_index' = write_index
    /\ freed_slots' = ReleasedSlots(size)

\* drop(sender): the Arc's count goes down; the last handle runs Drop for RingBuffer.
DropSender ==
    /\ ~ub
    /\ sender_alive /\ pcS = "idle"
    /\ sender_alive' = FALSE
    /\ IF receiver_alive
       THEN UNCHANGED <<entries, read_index, freed_slots, fin, ub>>
       ELSE RingBufferDrop
    /\ UNCHANGED <<size, write_index, receiver_alive, alloc_slots, pcS, s_wi,
                   s_val, s_ret, pcR, r_ri, r_val, r_ret, nextVal, emptyRecv, sent,
                   recvd, rejected, held>>
    /\ UNCHANGED <<nClears, cleared, raced>>
    /\ UNCHANGED tbVars

\* drop(receiver)
DropReceiver ==
    /\ ~ub
    /\ receiver_alive /\ pcR = "idle"
    /\ receiver_alive' = FALSE
    /\ IF sender_alive
       THEN UNCHANGED <<entries, read_index, freed_slots, fin, ub>>
       ELSE RingBufferDrop
    /\ UNCHANGED <<size, write_index, sender_alive, alloc_slots, pcS, s_wi,
                   s_val, s_ret, pcR, r_ri, r_val, r_ret, nextVal, emptyRecv, sent,
                   recvd, rejected, held>>
    /\ UNCHANGED <<nClears, cleared, raced>>
    /\ UNCHANGED tbVars

\* The values in the slots from the read cursor to the write cursor.
Occupying == {DrainValues(entries, write_index, read_index, size)[k] :
                 k \in 1..available_read(write_index, read_index, size)}

\* RingBuffer::clear, line 94: write_index.store(0)
ClearStoreWrite ==
    /\ ~ub
    /\ sender_alive /\ pcS = "idle" /\ nClears < MaxClears
    /\ write_index' = 0
    /\ pcS' = "clear"
    /\ nClears' = nClears + 1
    /\ cleared' = cleared \cup Occupying
    /\ raced' = (raced \/ pcR # "idle")
    /\ UNCHANGED <<size, entries, read_index, sender_alive, receiver_alive,
                   alloc_slots, freed_slots, s_wi, s_val, s_ret, pcR, r_ri, r_val,
                   r_ret, nextVal, emptyRecv, sent, recvd, rejected, held, fin, ub>>
    /\ UNCHANGED tbVars

\* Mutant of ClearStoreRead: clear() resets the write cursor only.
ClearStoreRead_Skip ==
    /\ ~ub
    /\ pcS = "clear"
    /\ read_index' = read_index
    /\ pcS' = "idle"
    /\ raced' = (raced \/ pcR # "idle")
    /\ UNCHANGED <<size, entries, write_index, sender_alive, receiver_alive,
                   alloc_slots, freed_slots, s_wi, s_val, s_ret, pcR, r_ri, r_val,
                   r_ret, nextVal, emptyRecv, sent, recvd, rejected, held, fin,
                   nClears, cleared, ub>>
    /\ UNCHANGED tbVars

\* RingBuffer::clear, line 95: read_index.store(0)
ClearStoreRead ==
    /\ ~ub
    /\ pcS = "clear"
    /\ read_index' = 0
    /\ pcS' = "idle"
    /\ raced' = (raced \/ pcR # "idle")
    /\ UNCHANGED <<size, entries, write_index, sender_alive, receiver_alive,
                   alloc_slots, freed_slots, s_wi, s_val, s_ret, pcR, r_ri, r_val,
                   r_ret, nextVal, emptyRecv, sent, recvd, rejected, held, fin,
                   nClears, cleared, ub>>
    /\ UNCHANGED tbVars

ChannelNext ==
    \/ TrySendBegin
    \/ TrySendWrite
    \/ TrySendStore
    \/ TryRecvBegin
    \/ TryRecvRead
    \/ TryRecvStore
    \/ DropReceived
    \/ DropSender
    \/ DropReceiver


\* The operations of a channel whose producer also calls clear().  The
\* consumer keeps every value it received (it never drops one), which leaves
\* the channel's own steps as the only source of finalizations.
ChannelClearNext ==
    \/ TrySendBegin
    \/ TrySendWrite
    \/ TrySendStore
    \/ TryRecvBegin
    \/ TryRecvRead
    \/ TryRecvStore
    \/ DropSender
    \/ DropReceiver
    \/ ClearStoreWrite
    \/ ClearStoreRead

\* ---------------------------------------------------- triple_buffer.rs
INDEX_MASK == 3

COMMIT_BIT == 4

\* The three slots of Internal::buffers.
NumSlots == 3

\* Bitwise & and | on usize.
RECURSIVE BitAnd(_, _)
BitAnd(a, b) ==
    IF a = 0 \/ b = 0
    THEN 0
    ELSE (a % 2) * (b % 2) + 2 * BitAnd(a \div 2, b \div 2)

RECURSIVE BitOr(_, _)
BitOr(a, b) ==
    IF a = 0 THEN b
    ELSE IF b = 0 THEN a
    ELSE (IF a % 2 = 1 \/ b % 2 = 1 THEN 1 ELSE 0) + 2 * BitOr(a \div 2, b \div 2)

\* The value ids of a run: the three initial values, then one per write().
TBIds == 1..(NumSlots + MaxWrites)

\* initial_values.0, .1, .2: three values of their own (three clones in
\* triple_buffer), each with its own finalizer.
InitialValue(i) == [id |-> i + 1, data |-> i + 1]

\* Mutant of TripleInit: the state word starts on the reader's slot.
TripleInit_CommittedZero ==
    /\ buffers = [i \in 0..(NumSlots - 1) |-> InitialValue(i)]
    /\ committed = 0
    /\ writer_write_index = 2
    /\ reader_read_index = 0
    /\ writer_alive = TRUE
    /\ reader_alive = TRUE
    /\ pcW = "idle"
    /\ pcRd = "idle"
    /\ ops = 0
    /\ nWrites = 0
    /\ nReads = 0
    /\ commits = <<>>
    /\ rd_slot = 0
    /\ rd_val = InitialValue(0)
    /\ rd_startLen = 0
    /\ rd_retLen = 0
    /\ rd_quiet = TRUE
    /\ slot_no = [i \in 0..(NumSlots - 1) |-> 0]
    /\ rd_no = 0
    /\ tbFin = [v \in TBIds |-> 0]

\* triple_buffer_explicit / triple_buffer
TripleInit ==
    /\ buffers = [i \in 0..(NumSlots - 1) |-> InitialValue(i)]
    /\ committed = 1
    /\ writer_write_index = 2
    /\ reader_read_index = 0
    /\ writer_alive = TRUE
    /\ reader_alive = TRUE
    /\ pcW = "idle"
    /\ pcRd = "idle"
    /\ ops = 0
    /\ nWrites = 0
    /\ nReads = 0
    /\ commits = <<>>
    /\ rd_slot = 0
    /\ rd_val = InitialValue(0)
    /\ rd_startLen = 0
    /\ rd_retLen = 0
    /\ rd_quiet = TRUE
    /\ slot_no = [i \in 0..(NumSlots - 1) |-> 0]
    /\ rd_no = 0
    /\ tbFin = [v \in TBIds |-> 0]

\* A writer step overlaps the read() in progress, if there is one.
WriterStepSeen == IF pcRd = "idle" THEN rd_quiet ELSE FALSE

\* Mutant of WriteFill: the new value is written over the old one without dropping it.
WriteFill_NoDrop ==
    /\ writer_alive /\ pcW = "idle" /\ ops < MaxWrites
    /\ tbFin' = tbFin
    /\ buffers' = [buffers EXCEPT ![writer_write_index] =
                      [id |-> NumSlots + ops + 1, data |-> NumSlots + ops + 1]]
    /\ ops' = ops + 1
    /\ nWrites' = nWrites + 1
    /\ pcW' = "commit"
    /\ rd_quiet' = WriterStepSeen
    /\ UNCHANGED <<committed, writer_write_index, reader_read_index, writer_alive,
                   reader_alive, pcRd, nReads, commits, rd_slot, rd_val, rd_startLen,
                   rd_retLen>>
    /\ UNCHANGED <<slot_no, rd_no>>
    /\ UNCHANGED chanVars

\* Writer::write, lines 36-46: drop the contents of the writer's slot and
\* construct the new value in its place.
WriteFill ==
    /\ writer_alive /\ pcW = "idle" /\ ops < MaxWrites
    /\ tbFin' = Finalize(tbFin, buffers[writer_write_index].id)
    /\ buffers' = [buffers EXCEPT ![writer_write_index] =
                      [id |-> NumSlots + ops + 1, data |-> NumSlots + ops + 1]]
    /\ ops' = ops + 1
    /\ nWrites' = nWrites + 1
    /\ pcW' = "commit"
    /\ rd_quiet' = WriterStepSeen
    /\ UNCHANGED <<committed, writer_write_index, reader_read_index, writer_alive,
                   reader_alive, pcRd, nReads, commits, rd_slot, rd_val, rd_startLen,
                   rd_retLen>>
    /\ UNCHANGED <<slot_no, rd_no>>
    /\ UNCHANGED chanVars

\* Mutant of WriteCommit: the writer keeps writing into the slot it has just committed.
WriteCommit_KeepIndex ==
    /\ pcW = "commit"
    /\ committed' = BitOr(writer_write_index, COMMIT_BIT)
    /\ writer_write_index' = writer_write_index
    /\ commits' = Append(commits, buffers[writer_write_index])
    /\ pcW' = "idle"
    /\ rd_quiet' = WriterStepSeen
    /\ UNCHANGED <<buffers, reader_read_index, writer_alive, reader_alive, pcRd, ops,
                   nWrites, nReads, rd_slot, rd_val, rd_startLen, rd_retLen, tbFin>>
    /\ slot_no' = [slot_no EXCEPT ![writer_write_index] = Len(commits) + 1]
    /\ UNCHANGED rd_no
    /\ UNCHANGED chanVars

\* Mutant of WriteCommit: the commit forgets the unread flag.
WriteCommit_NoCommitBit ==
    /\ pcW = "commit"
    /\ committed' = writer_write_index
    /\ writer_write_index' = BitAnd(committed, INDEX_MASK)
    /\ commits' = Append(commits, buffers[writer_write_index])
    /\ pcW' = "idle"
    /\ rd_quiet' = WriterStepSeen
    /\ UNCHANGED <<buffers, reader_read_index, writer_alive, reader_alive, pcRd, ops,
                   nWrites, nReads, rd_slot, rd_val, rd_startLen, rd_retLen, tbFin>>
    /\ slot_no' = [slot_no EXCEPT ![writer_write_index] = Len(commits) + 1]
    /\ UNCHANGED rd_no
    /\ UNCHANGED chanVars

\* Writer::write, lines 48-52: swap the state word for (write_index | COMMIT_BIT)
\* and take the slot of the previous word as the next write slot.
WriteCommit ==
    /\ pcW = "commit"
    /\ committed' = BitOr(writer_write_index, COMMIT_BIT)
    /\ writer_write_index' = BitAnd(committed, INDEX_MASK)
    /\ commits' = Append(commits, buffers[writer_write_index])
    /\ pcW' = "idle"
    /\ rd_quiet' = WriterStepSeen
    /\ UNCHANGED <<buffers, reader_read_index, writer_alive, reader_alive, pcRd, ops,
                   nWrites, nReads, rd_slot, rd_val, rd_startLen, rd_retLen, tbFin>>
    /\ slot_no' = [slot_no EXCEPT ![writer_write_index] = Len(commits) + 1]
    /\ UNCHANGED rd_no
    /\ UNCHANGED chanVars

\* Writer::get_mut, lines 55-67: a WriteGuard on the writer's slot.
GetMut ==
    /\ writer_alive /\ pcW = "idle" /\ ops < MaxWrites
    /\ ops' = ops + 1
    /\ pcW' = "guard"
    /\ rd_quiet' = WriterStepSeen
    /\ UNCHANGED <<buffers, committed, writer_write_index, reader_read_index,
                   writer_alive, reader_alive, pcRd, nWrites, nReads, commits, rd_slot,
                   rd_val, rd_startLen, rd_retLen, tbFin>>
    /\ UNCHANGED <<slot_no, rd_no>>
    /\ UNCHANGED chanVars

\* DerefMut for WriteGuard, lines 87-91: the caller changes the slot's
\* contents in place; the value in the slot stays the same object.
GuardMutate ==
    /\ pcW = "guard" /\ ops < MaxWrites
    /\ buffers' = [buffers EXCEPT ![writer_write_index].data = NumSlots + ops + 1]
    /\ ops' = ops + 1
    /\ rd_quiet' = WriterStepSeen
    /\ UNCHANGED <<committed, writer_write_index, reader_read_index, writer_alive,
                   reader_alive, pcW, pcRd, nWrites, nReads, commits, rd_slot, rd_val,
                   rd_startLen, rd_retLen, tbFin>>
    /\ UNCHANGED <<slot_no, rd_no>>
    /\ UNCHANGED chanVars

\* Mutant of GuardDrop: the guard's commit leaves write_index on the slot it has just committed.
GuardDrop_KeepIndex ==
    /\ pcW = "guard"
    /\ committed' = BitOr(writer_write_index, COMMIT_BIT)
    /\ writer_write_index' = writer_write_index
    /\ commits' = Append(commits, buffers[writer_write_index])
    /\ pcW' = "idle"
    /\ rd_quiet' = WriterStepSeen
    /\ UNCHANGED <<buffers, reader_read_index, writer_alive, reader_alive, pcRd, ops,
                   nWrites, nReads, rd_slot, rd_val, rd_startLen, rd_retLen, tbFin>>
    /\ slot_no' = [slot_no EXCEPT ![writer_write_index] = Len(commits) + 1]
    /\ UNCHANGED rd_no
    /\ UNCHANGED chanVars

\* Drop for WriteGuard / Writer::commit_write_guard, lines 69-76 and 93-97.
GuardDrop ==
    /\ pcW = "guard"
    /\ committed' = BitOr(writer_write_index, COMMIT_BIT)
    /\ writer_write_index' = BitAnd(committed, INDEX_MASK)
    /\ commits' = Append(commits, buffers[writer_write_index])
    /\ pcW' = "idle"
    /\ rd_quiet' = WriterStepSeen
    /\ UNCHANGED <<buffers, reader_read_index, writer_alive, reader_alive, pcRd, ops,
                   nWrites, nReads, rd_slot, rd_val, rd_startLen, rd_retLen, tbFin>>
    /\ slot_no' = [slot_no EXCEPT ![writer_write_index] = Len(commits) + 1]
    /\ UNCHANGED rd_no
    /\ UNCHANGED chanVars

\* Mutant of ReadBegin: the exchange is made whether or not the unread flag is set.
ReadBegin_AlwaysSwap ==
    /\ reader_alive /\ pcRd = "idle" /\ nReads < MaxReads
    /\ rd_startLen' = Len(commits)
    /\ rd_quiet' = (pcW = "idle")
    /\ IF TRUE
       THEN /\ pcRd' = "swap"
            /\ UNCHANGED <<nReads, rd_slot, rd_val, rd_retLen>>
       ELSE /\ nReads' = nReads + 1
            /\ rd_slot' = reader_read_index
            /\ rd_val' = buffers[reader_read_index]
            /\ rd_retLen' = Len(commits)
            /\ UNCHANGED pcRd
    /\ UNCHANGED <<buffers, committed, writer_write_index, reader_read_index,
                   writer_alive, reader_alive, pcW, ops, nWrites, commits, tbFin>>
    /\ rd_no' = (IF TRUE THEN rd_no ELSE slot_no[reader_read_index])
    /\ UNCHANGED slot_no
    /\ UNCHANGED chanVars

\* Reader::read, line 101 (and lines 110-115 when the flag is clear): load the
\* state word; with COMMIT_BIT clear return the reader's current slot.
ReadBegin ==
    /\ reader_alive /\ pcRd = "idle" /\ nReads < MaxReads
    /\ rd_startLen' = Len(commits)
    /\ rd_quiet' = (pcW = "idle")
    /\ IF BitAnd(committed, COMMIT_BIT) # 0
       THEN /\ pcRd' = "swap"
            /\ UNCHANGED <<nReads, rd_slot, rd_val, rd_retLen>>
       ELSE /\ nReads' = nReads + 1
            /\ rd_slot' = reader_read_index
            /\ rd_val' = buffers[reader_read_index]
            /\ rd_retLen' = Len(commits)
            /\ UNCHANGED pcRd
    /\ UNCHANGED <<buffers, committed, writer_write_index, reader_read_index,
                   writer_alive, reader_alive, pcW, ops, nWrites, commits, tbFin>>
    /\ rd_no' = (IF BitAnd(committed, COMMIT_BIT) # 0 THEN rd_no ELSE slot_no[reader_read_index])
    /\ UNCHANGED slot_no
    /\ UNCHANGED chanVars

\* Mutant of ReadSwap: the reader takes the committed slot without giving its own slot back.
ReadSwap_KeepCommitted ==
    /\ pcRd = "swap"
    /\ committed' = BitAnd(committed, INDEX_MASK)
    /\ reader_read_index' = BitAnd(committed, INDEX_MASK)
    /\ nReads' = nReads + 1
    /\ rd_slot' = BitAnd(committed, INDEX_MASK)
    /\ rd_val' = buffers[BitAnd(committed, INDEX_MASK)]
    /\ rd_retLen' = Len(commits)
    /\ pcRd' = "idle"
    /\ UNCHANGED <<buffers, writer_write_index, writer_alive, reader_alive, pcW, ops,
                   nWrites, commits, rd_startLen, rd_quiet, tbFin>>
    /\ rd_no' = slot_no[BitAnd(committed, INDEX_MASK)]
    /\ UNCHANGED slot_no
    /\ UNCHANGED chanVars

\* Mutant of ReadSwap: the reader hands its old slot back marked as unread.
ReadSwap_LeaveFlag ==
    /\ pcRd = "swap"
    /\ committed' = BitOr(reader_read_index, COMMIT_BIT)
    /\ reader_read_index' = BitAnd(committed, INDEX_MASK)
    /\ nReads' = nReads + 1
    /\ rd_slot' = BitAnd(committed, INDEX_MASK)
    /\ rd_val' = buffers[BitAnd(committed, INDEX_MASK)]
    /\ rd_retLen' = Len(commits)
    /\ pcRd' = "idle"
    /\ UNCHANGED <<buffers, writer_write_index, writer_alive, reader_alive, pcW, ops,
                   nWrites, commits, rd_startLen, rd_quiet, tbFin>>
    /\ rd_no' = slot_no[BitAnd(committed, INDEX_MASK)]
    /\ UNCHANGED slot_no
    /\ UNCHANGED chanVars

\* Reader::read, lines 102-115: swap the state word for read_index, take the
\* slot of the previous word and return a reference to it.
ReadSwap ==
    /\ pcRd = "swap"
    /\ committed' = reader_read_index
    /\ reader_read_index' = BitAnd(committed, INDEX_MASK)
    /\ nReads' = nReads + 1
    /\ rd_slot' = BitAnd(committed, INDEX_MASK)
    /\ rd_val' = buffers[BitAnd(committed, INDEX_MASK)]
    /\ rd_retLen' = Len(commits)
    /\ pcRd' = "idle"
    /\ UNCHANGED <<buffers, writer_write_index, writer_alive, reader_alive, pcW, ops,
                   nWrites, commits, rd_startLen, rd_quiet, tbFin>>
    /\ rd_no' = slot_no[BitAnd(committed, INDEX_MASK)]
    /\ UNCHANGED slot_no
    /\ UNCHANGED chanVars

\* Drop for Internal, lines 119-125: every slot's contents are dropped.
InternalDrop ==
    tbFin' = FinalizeAll(tbFin, [k \in 1..NumSlots |-> buffers[k - 1].id])

\* drop(writer): the last handle runs Drop for Internal.  A live WriteGuard
\* borrows the Writer, so the Writer is dropped only when idle.
DropWriter ==
    /\ writer_alive /\ pcW = "idle"
    /\ writer_alive' = FALSE
    /\ IF reader_alive THEN UNCHANGED tbFin ELSE InternalDrop
    /\ UNCHANGED <<buffers, committed, writer_write_index, reader_read_index,
                   reader_alive, pcW, pcRd, ops, nWrites, nReads, commits, rd_slot,
                   rd_val, rd_startLen, rd_retLen, rd_quiet>>
    /\ UNCHANGED <<slot_no, rd_no>>
    /\ UNCHANGED chanVars

\* drop(reader)
DropReader ==
    /\ reader_alive /\ pcRd = "idle"
    /\ reader_alive' = FALSE
    /\ IF writer_alive THEN UNCHANGED tbFin ELSE InternalDrop
    /\ UNCHANGED <<buffers, committed, writer_write_index, reader_read_index,
                   writer_alive, pcW, pcRd, ops, nWrites, nReads, commits, rd_slot,
                   rd_val, rd_startLen, rd_retLen, rd_quiet>>
    /\ UNCHANGED <<slot_no, rd_no>>
    /\ UNCHANGED chanVars

TripleNext ==
    \/ WriteFill
    \/ WriteCommit
    \/ GetMut
    \/ GuardMutate
    \/ GuardDrop
    \/ ReadBegin
    \/ ReadSwap
    \/ DropWriter
    \/ DropReader

\* ------------------------------------------------------ specifications
Init == ChannelInit /\ TripleInit

\* The channel: one producer thread and one consumer thread, no clear().
SpecChannel == Init /\ [][ChannelNext]_vars

InitClear == (\E n \in 1..MaxClearCap : ChannelNew(n)) /\ TripleInit

\* The channel with clear(): the producer thread also calls clear(), whose two
\* cursor stores interleave with the consumer's steps.
SpecChannelClear == InitClear /\ [][ChannelClearNext]_vars

\* The triple buffer: one writer thread and one reader thread (beside an
\* untouched channel of capacity 1).
InitTriple == ChannelNew(1) /\ TripleInit

SpecTriple == InitTriple /\ [][TripleNext]_vars

\* A channel of capacity 1 that was built and whose two handles were dropped
\* at once: nothing was sent, the drain found nothing, the storage is released.
ChannelDropped ==
    /\ size = 2
    /\ alloc_slots = 2
    /\ entries = [i \in 0..1 |-> EmptySlot]
    /\ write_index = 0
    /\ read_index = 0
    /\ sender_alive = FALSE
    /\ receiver_alive = FALSE
    /\ freed_slots = ReleasedSlots(2)
    /\ pcS = "idle" /\ s_wi = 0 /\ s_val = 0 /\ s_ret = "none"
    /\ pcR = "idle" /\ r_ri = 0 /\ r_val = 0 /\ r_ret = -1
    /\ nextVal = 0
    /\ emptyRecv = 0
    /\ sent = <<>>
    /\ recvd = <<>>
    /\ rejected = {}
    /\ held = {}
    /\ fin = [v \in Values |-> 0]
    /\ nClears = 0
    /\ cleared = {}
    /\ raced = FALSE
    /\ ub = FALSE

\* A triple buffer that was built and whose two handles were dropped at once:
\* Drop for Internal has finalized the three initial values.
TripleDropped ==
    /\ buffers = [i \in 0..(NumSlots - 1) |-> InitialValue(i)]
    /\ committed = 1
    /\ writer_write_index = 2
    /\ reader_read_index = 0
    /\ writer_alive = FALSE
    /\ reader_alive = FALSE
    /\ pcW = "idle"
    /\ pcRd = "idle"
    /\ ops = 0
    /\ nWrites = 0
    /\ nReads = 0
    /\ commits = <<>>
    /\ rd_slot = 0
    /\ rd_val = InitialValue(0)
    /\ rd_startLen = 0
    /\ rd_retLen = 0
    /\ rd_quiet = TRUE
    /\ slot_no = [i \in 0..(NumSlots - 1) |-> 0]
    /\ rd_no = 0
    /\ tbFin = [v \in TBIds |-> IF v <= NumSlots THEN 1 ELSE 0]

\* The library: a program that uses one of the two components, the other
\* having been built and dropped; the producer may call clear().
InitLibrary ==
    \/ (\E n \in 1..MaxClearCap : ChannelNew(n)) /\ TripleDropped
    \/ ChannelDropped /\ TripleInit

LibraryNext ==
    \/ ChannelClearNext
    \/ TripleNext

SpecLibrary == InitLibrary /\ [][LibraryNext]_vars

\* ------------------------------------------------- spsc.rs: properties
Range(q) == {q[i] : i \in 1..Len(q)}

IsPrefix(p, q) == Len(p) <= Len(q) /\ \A i \in 1..Len(p) : p[i] = q[i]

NoDuplicates(q) == \A i, j \in 1..Len(q) : q[i] = q[j] => i = j

\* Values sent (try_send returned true) and not yet received (try_recv returned).
Pending == Len(sent) - Len(recvd)

\* The capacity the channel was built with.
Capacity == size - 1

TornDown == ~sender_alive /\ ~receiver_alive

\* C1 (channel FIFO): the sequence of values returned as Some by try_recv is
\* always a prefix of the sequence of values for which try_send returned true:
\* nothing is reordered or duplicated; and nothing is lost: while the storage
\* lives and no receive is in progress, the values sent and not yet received
\* are exactly the occupied slots from the read cursor to the write cursor,
\* in order.
C1_Fifo ==
    /\ IsPrefix(recvd, sent)
    /\ NoDuplicates(recvd)
    /\ (pcR = "idle" /\ ~TornDown) =>
          /\ sent = recvd \o DrainValues(entries, write_index, read_index, size)
          /\ \A k \in 0..(Pending - 1) : entries[(read_index + k) % size].live

\* C1 witness: three values received in order after interleaved sends, the
\* cursors having wrapped, with a further value still pending.
C1_Witness ==
    /\ Len(recvd) >= 3
    /\ Len(sent) > Len(recvd)
    /\ write_index < read_index

\* C2 (capacity boundary): a try_send call is rejected exactly when Capacity
\* values are pending and accepted exactly when fewer are; a try_recv call
\* returns None exactly when nothing is pending; the number of pending values
\* never leaves 0..Capacity.
C2_CapacityBoundary ==
    /\ [](Pending \in 0..Capacity)
    /\ [][/\ (nextVal' = nextVal + 1) =>
               /\ (nextVal' \in rejected' /\ s_ret' = "false") <=> (Pending = Capacity)
               /\ (pcS' = "write") <=> (Pending < Capacity)
          /\ (pcR = "idle" /\ receiver_alive' /\ (emptyRecv' # emptyRecv \/ pcR' # pcR)) =>
               /\ (r_ret' = 0 /\ pcR' = "idle") <=> (Pending = 0)
               /\ (pcR' = "read") <=> (Pending > 0)
         ]_vars

\* C2 witness: a full channel of the largest capacity whose cursors have
\* wrapped (write cursor below read cursor) has just rejected a send.
C2_Witness ==
    /\ s_ret = "false" /\ pcS = "idle" /\ nextVal \in rejected
    /\ write_index < read_index
    /\ Pending = Capacity
    /\ Capacity = MaxCap

\* C6 (channel finalization accounting): no value is ever finalized twice; a
\* rejected value is finalized by the failing call; a received value is
\* finalized by its owner and by nobody else; a sent value that was never
\* received is finalized by the teardown and not before; so once both handles
\* and every owner of a received value are gone, each value ever offered has
\* been finalized exactly once.
C6_ChannelFinalization ==
    /\ \A v \in Values : fin[v] <= 1
    /\ \A v \in 1..nextVal :
          fin[v] = IF v \in rejected THEN 1
                   ELSE IF v \in Range(recvd) THEN (IF v \in held THEN 0 ELSE 1)
                   ELSE IF TornDown THEN 1 ELSE 0
    /\ (TornDown /\ held = {}) => \A v \in 1..nextVal : fin[v] = 1

\* C6 witness: both handles dropped with one value rejected, at least one
\* received and dropped by its owner, and at least two drained by the teardown.
C6_Witness ==
    /\ TornDown /\ held = {}
    /\ rejected # {}
    /\ Len(recvd) >= 1
    /\ Len(sent) >= Len(recvd) + 2

\* C8 (no partial failure): a try_send that returns false and a try_recv that
\* returns None change neither cursor, no slot and neither history; and a
\* rejected value is in no slot and is never returned by try_recv.
C8_NoPartialFailure ==
    /\ [](\A v \in rejected :
            /\ v \notin Range(recvd)
            /\ v \notin Range(sent)
            /\ \A i \in DOMAIN entries : entries[i].val # v)
    /\ [][/\ (nextVal' = nextVal + 1 /\ s_ret' = "false" /\ pcS' = "idle") =>
               UNCHANGED <<write_index, read_index, entries, sent, recvd>>
          /\ (emptyRecv' = emptyRecv + 1) =>
               /\ r_ret' = 0
               /\ UNCHANGED <<write_index, read_index, entries, sent, recvd>>
         ]_vars

\* C8 witness: a send was rejected, a receive found the channel empty, and the
\* values sent around the rejection were all received.
C8_Witness ==
    /\ rejected # {}
    /\ emptyRecv >= 1
    /\ Len(recvd) >= 2
    /\ \E v \in Range(recvd) : \E u \in rejected : v > u

\* C9 (liveness flags): while the Sender exists is_receiver_active() is true
\* iff the Receiver has not been dropped, and while the Receiver exists
\* is_sender_active() is true iff the Sender has not been dropped.
C9_LivenessFlags ==
    /\ sender_alive => (is_receiver_active <=> receiver_alive)
    /\ receiver_alive => (is_sender_active <=> sender_alive)

\* C9 witness: the Receiver was dropped after sends and receives, the Sender
\* is still there and is_receiver_active() is false.
C9_Witness ==
    /\ sender_alive /\ ~receiver_alive
    /\ Len(recvd) >= 1 /\ Len(sent) >= 2
    /\ ~is_receiver_active

\* C10 (size): with no send or receive in progress, Receiver::size() is the
\* number of pending values, Sender::size() is Capacity minus that number,
\* the two sum to Capacity and both lie in 0..Capacity.
C10_Size ==
    (pcS = "idle" /\ pcR = "idle" /\ ~TornDown) =>
        /\ ReceiverSize = Pending
        /\ SenderSize = Capacity - Pending
        /\ ReceiverSize + SenderSize = Capacity
        /\ ReceiverSize \in 0..Capacity
        /\ SenderSize \in 0..Capacity

\* C10 witness: wrapped cursors (write cursor below read cursor) with one
\* value pending in a channel of capacity 2.
C10_Witness ==
    /\ pcS = "idle" /\ pcR = "idle" /\ ~TornDown
    /\ write_index < read_index
    /\ Capacity = 2
    /\ ReceiverSize = 1 /\ SenderSize = 1

\* ------------------------------------------- triple_buffer.rs: properties
TBTornDown == ~writer_alive /\ ~reader_alive

\* The ids of the values constructed so far: the initial three and those
\* passed to write().
Constructed ==
    {i + 1 : i \in 0..(NumSlots - 1)} \cup
    {id \in TBIds : id > NumSlots /\ (tbFin[id] > 0 \/ \E i \in DOMAIN buffers : buffers[i].id = id)}

Resident == {buffers[i].id : i \in DOMAIN buffers}

Finalizations == Cardinality({id \in TBIds : tbFin[id] = 1})

\* C3 (partition invariant): the writer's write_index, the slot index in the
\* state word (committed & INDEX_MASK) and the reader's read_index are
\* pairwise distinct and together are exactly {0, 1, 2}.
C3_Partition ==
    /\ writer_write_index # BitAnd(committed, INDEX_MASK)
    /\ writer_write_index # reader_read_index
    /\ reader_read_index # BitAnd(committed, INDEX_MASK)
    /\ {writer_write_index, BitAnd(committed, INDEX_MASK), reader_read_index} = {0, 1, 2}

\* C3 witness: after commits by write() and by a guard and a read() that
\* exchanged, the roles are writer 0, state word 1, reader 2.
C3_Witness ==
    /\ nWrites >= 1 /\ Len(commits) > nWrites /\ nReads >= 1
    /\ writer_write_index = 0
    /\ BitAnd(committed, INDEX_MASK) = 1
    /\ reader_read_index = 2

\* C4 (latest wins): a read() that started after k commits had completed and
\* that no writer operation overlapped returned the contents of the k-th
\* commit (for a commit by write(), the value passed to it), however many
\* commits were made since the previous read; with k = 0 it returned the
\* initial value of slot 0.  When only write() was ever used, the k-th commit
\* is the k-th write() and the value returned is the one passed to it.  A
\* read() overlapped by the writer returned the contents of a commit no older
\* than the k-th.
C4_LatestWins ==
    (nReads > 0 /\ pcRd = "idle") =>
        /\ rd_quiet =>
              rd_val = IF rd_startLen = 0 THEN InitialValue(0) ELSE commits[rd_startLen]
        /\ (rd_quiet /\ ops = nWrites /\ rd_startLen >= 1) =>
              rd_val.id = NumSlots + rd_startLen
        /\ \/ rd_startLen = 0 /\ rd_val = InitialValue(0)
           \/ \E j \in rd_startLen..rd_retLen : j >= 1 /\ rd_val = commits[j]

\* C4 witness: two write() calls completed with no read between them, then a
\* first read(), not overlapped, returned the value of the second write.
C4_Witness ==
    /\ nReads = 1 /\ pcRd = "idle" /\ rd_quiet
    /\ nWrites = 2 /\ Len(commits) = 2 /\ rd_startLen = 2
    /\ rd_val = commits[2]
    /\ rd_val.id # commits[1].id

\* C5 (idempotent read): a read() that finds the unread flag clear leaves the
\* state word and read_index unchanged and returns the slot the previous
\* read() returned; a read() that returns with no commit made since the
\* previous read() returned yields the same slot and the same value.
C5_IdempotentRead ==
    [][(nReads' = nReads + 1) =>
          /\ (BitAnd(committed, COMMIT_BIT) = 0) =>
                /\ committed' = committed
                /\ reader_read_index' = reader_read_index
                /\ rd_slot' = reader_read_index
                /\ (nReads > 0 => rd_slot' = rd_slot)
          /\ (nReads > 0 /\ Len(commits') = rd_retLen) =>
                /\ rd_slot' = rd_slot
                /\ rd_val' = rd_val
      ]_vars

\* C5 witness: the second of two reads with no commit between them, made after
\* a write was read, returned the written value again.
C5_Witness ==
    /\ nReads >= 2 /\ pcRd = "idle"
    /\ rd_retLen = Len(commits) /\ rd_startLen = Len(commits)
    /\ Len(commits) >= 1
    /\ BitAnd(committed, COMMIT_BIT) = 0
    /\ rd_val = commits[Len(commits)]
    /\ rd_slot = reader_read_index

\* C7 (triple buffer finalization accounting): no value is finalized twice;
\* before the teardown the finalized values are exactly the constructed ones
\* that no slot holds any more (each overwritten by a write()); once both
\* handles are dropped every constructed value has been finalized exactly
\* once, 3 + (calls of write()) finalizations in all, guards adding none.
C7_TripleFinalization ==
    /\ \A id \in TBIds : tbFin[id] <= 1
    /\ Cardinality(Constructed) = NumSlots + nWrites
    /\ ~TBTornDown =>
          /\ \A id \in Constructed : tbFin[id] = IF id \in Resident THEN 0 ELSE 1
          /\ Finalizations = nWrites
    /\ TBTornDown =>
          /\ \A id \in Constructed : tbFin[id] = 1
          /\ Finalizations = NumSlots + nWrites

\* C7 witness: both handles dropped after two write() calls, a guard commit
\* and a read: 5 finalizations.
C7_Witness ==
    /\ TBTornDown
    /\ nWrites = 2 /\ Len(commits) >= 3 /\ nReads >= 1
    /\ Finalizations = 5

\* --------------------------------------- spsc.rs: properties of clear()
\* C11 (clear, called with no other operation in progress): the first store
\* sets the write cursor to zero, the second leaves both cursors at zero
\* whatever they were; neither finalizes a value or touches a slot; after it
\* the channel is empty (a try_recv finds nothing to read, Sender::size() is
\* the capacity); and the values that occupied the buffer when clear was
\* called are never returned by try_recv and never finalized, not even by
\* the teardown drain, and no slot without a value is ever read.
C11_Clear ==
    [][ /\ (pcS = "idle" /\ pcS' = "clear" /\ ~raced') =>
              /\ write_index' = 0
              /\ fin' = fin /\ entries' = entries /\ recvd' = recvd
        /\ (pcS = "clear" /\ pcS' = "idle" /\ ~raced') =>
              /\ write_index' = 0 /\ read_index' = 0
              /\ fin' = fin /\ entries' = entries /\ recvd' = recvd
              /\ available_read(write_index', read_index', size') = 0
              /\ available_write(write_index', read_index', size') = size' - 1
        /\ ~raced' =>
              /\ ~ub'
              /\ \A v \in cleared' : v \notin Range(recvd') /\ fin'[v] = 0
      ]_vars

\* C11 witness: a full channel of capacity 2 was cleared with the consumer
\* idle, a third value was then sent and received, and both handles were
\* dropped: the two cleared values were neither received nor finalized.
C11_Witness ==
    /\ ~raced /\ ~ub
    /\ nClears = 1 /\ cleared = {1, 2}
    /\ recvd = <<3>>
    /\ TornDown /\ freed_slots # 0
    /\ fin[1] = 0 /\ fin[2] = 0

\* The step is the cursor store of a try_send / of a try_recv, the first /
\* second store of a clear(), or the teardown of the storage.
SendStoreStep == pcS = "store" /\ pcS' = "idle"

RecvStoreStep == pcR = "store" /\ pcR' = "idle"

ClearFirstStep == pcS = "idle" /\ pcS' = "clear"

ClearSecondStep == pcS = "clear" /\ pcS' = "idle"

TeardownStep == freed_slots = 0 /\ freed_slots' # 0

CursorsInRange ==
    /\ size = alloc_slots
    /\ write_index \in 0..(size - 1)
    /\ read_index \in 0..(size - 1)

\* C12 as stated (cursor ownership): both cursors lie in [0, size) with
\* size = capacity + 1, the write cursor is changed only by the producer's
\* operations and the read cursor only by the consumer's try_recv (or by the
\* teardown drain, which runs once no handle is left): no operation of the
\* Sender changes the read cursor.
C12_AsStated ==
    [][ /\ CursorsInRange'
        /\ write_index' # write_index => (SendStoreStep \/ ClearFirstStep)
        /\ read_index' # read_index => (RecvStoreStep \/ TeardownStep)
      ]_vars

\* C12 (cursor ownership, amended): both cursors lie in [0, size) with
\* size = capacity + 1; the write cursor is changed only by the producer
\* (try_send's cursor store, clear()'s first store); the read cursor is
\* changed only by the consumer's try_recv, by the teardown drain, and by the
\* producer's clear(), whose second store sets it to zero.
C12_CursorOwnership ==
    [][ /\ CursorsInRange'
        /\ write_index' # write_index => (SendStoreStep \/ ClearFirstStep)
        /\ read_index' # read_index =>
              \/ RecvStoreStep /\ read_index' = (r_ri + 1) % size
              \/ TeardownStep
              \/ ClearSecondStep /\ read_index' = 0
      ]_vars

\* C12 witness: on a live channel of capacity 2 one value was received (read
\* cursor 1) and the producer's clear() then put the read cursor back to 0.
C12_Witness ==
    /\ sender_alive /\ receiver_alive
    /\ size = 3 /\ Len(recvd) = 1
    /\ nClears = 1 /\ pcS = "idle" /\ pcR = "idle"
    /\ read_index = 0 /\ ~raced

\* C18 (channel safety when clear() runs concurrently): whatever the
\* interleaving of try_send and clear() with try_recv, every value returned
\* by try_recv was sent by a successful try_send and is returned at most
\* once; the occupancy computed from the cursors never exceeds the number of
\* values sent and not yet received; and no slot without a value is read, by
\* try_recv or by the teardown drain.
C18_ConcurrentClearSafe ==
    /\ Range(recvd) \subseteq Range(sent)
    /\ NoDuplicates(recvd)
    /\ ~TornDown => available_read(write_index, read_index, size) <= Pending
    /\ ~ub

\* ---------------------------------- spsc.rs: properties of the hand-off
\* C16 (channel hand-off ordering): with the slot access and the cursor store
\* of try_send and of try_recv as separate steps, under every interleaving
\* the consumer is about to read only a slot whose value was written and
\* published by a completed try_send; the producer is about to write only a
\* slot whose previous value has been moved out; and a try_send and a try_recv
\* that overlap never work on the same slot.
C16_HandOff ==
    /\ pcR = "read" =>
          /\ entries[r_ri].live
          /\ entries[r_ri].val \in Range(sent)
    /\ pcS = "write" => ~entries[s_wi].live
    /\ (pcS \in {"write", "store"} /\ pcR \in {"read", "store"}) => s_wi # r_ri
    /\ ~ub

\* C16 witness: the cursors have wrapped; the producer is about to write into
\* a slot whose earlier value was received, while the consumer is about to
\* read another slot.
C16_Witness ==
    /\ pcS = "write" /\ pcR = "read"
    /\ entries[s_wi].val \in Range(recvd)
    /\ ~entries[s_wi].live
    /\ entries[r_ri].live
    /\ s_wi # r_ri

\* ---------------------------------- spsc.rs: properties of the storage
\* C20 (channel storage size consistency): for every capacity N >= 1 the
\* allocation made at construction has N + 1 slots, the size field is N + 1,
\* and the slot count with which the storage is released at teardown is the
\* slot count with which it was allocated.
C20_StorageSize ==
    /\ Capacity >= 1
    /\ alloc_slots = Capacity + 1
    /\ size = alloc_slots
    /\ freed_slots # 0 => freed_slots = alloc_slots

\* ------------------------------- triple_buffer.rs: further properties
\* Nothing has been committed since the construction.
NoCommitYet == commits = <<>>

\* The slots of the three roles: committed (state word), reader, writer.
RoleSlots == <<BitAnd(committed, INDEX_MASK), reader_read_index, writer_write_index>>

\* C15 as stated (triple buffer initial state): after construction the state
\* word designates slot 0 as the committed slot with the unread flag clear,
\* the reader holds slot 0 and the writer slot 2, and the three roles are on
\* the slots 0, 1, 2, no two on the same slot.
C15_AsStated ==
    NoCommitYet =>
        /\ BitAnd(committed, INDEX_MASK) = 0
        /\ BitAnd(committed, COMMIT_BIT) = 0
        /\ reader_read_index = 0
        /\ writer_write_index = 2
        /\ Range(RoleSlots) = 0..(NumSlots - 1)

\* C15 (triple buffer initial state, amended): after construction, and until
\* the first commit, the state word designates slot 1 as the committed slot
\* with the unread flag clear, the reader holds slot 0 and the writer slot 2:
\* the three roles are on the slots 1, 0, 2, no two on the same slot; a read()
\* made then returns the first initial value, from slot 0.
C15_InitialState ==
    NoCommitYet =>
        /\ BitAnd(committed, INDEX_MASK) = 1
        /\ BitAnd(committed, COMMIT_BIT) = 0
        /\ reader_read_index = 0
        /\ writer_write_index = 2
        /\ Range(RoleSlots) = 0..(NumSlots - 1)
        /\ rd_slot = 0 /\ rd_val = InitialValue(0)

\* C15 witness: no commit yet; a read() has returned and a write() has filled
\* the writer's slot but not committed it.
C15_Witness ==
    /\ NoCommitYet
    /\ nReads = 1 /\ pcRd = "idle"
    /\ pcW = "commit"
    /\ committed = 1

\* A step of the writer made while a WriteGuard lives, or creating one.
GuardWriterStep ==
    /\ pcW = "guard" \/ pcW' = "guard"
    /\ ops' # ops \/ pcW' # pcW

\* The exchange made by a commit: the state word becomes (write_index,
\* unread), write_index becomes the slot of the previous state word, and the
\* contents of the committed slot are the newest commit.
CommitExchange ==
    /\ committed' = BitOr(writer_write_index, COMMIT_BIT)
    /\ writer_write_index' = BitAnd(committed, INDEX_MASK)
    /\ commits' = Append(commits, buffers[writer_write_index])
    /\ buffers' = buffers

\* The contents of a commit were changed in place through a guard.
Mutated(c) == c.data # c.id

\* C14 (write guard): a guard from get_mut() exposes the writer-private slot
\* (its mutations change that slot only, which is neither the committed slot
\* nor the reader's); dropping it performs exactly one commit, with the same
\* exchange as write()'s commit; the guard constructs no value and finalizes
\* none; and a read() that starts after a guard's commit, not overlapped by
\* the writer, returns the slot's mutated contents.
C14_WriteGuard ==
    [][ /\ GuardWriterStep =>
              /\ tbFin' = tbFin
              /\ nWrites' = nWrites
              /\ \A i \in 0..(NumSlots - 1) : buffers'[i].id = buffers[i].id
        /\ (pcW = "guard" /\ pcW' = "guard" /\ ops' # ops) =>
              /\ writer_write_index # BitAnd(committed, INDEX_MASK)
              /\ writer_write_index # reader_read_index
              /\ \A i \in 0..(NumSlots - 1) :
                    i # writer_write_index => buffers'[i] = buffers[i]
              /\ commits' = commits /\ committed' = committed
        /\ (pcW = "guard" /\ pcW' = "idle") => CommitExchange
        /\ (pcW = "commit" /\ pcW' = "idle") => CommitExchange
        /\ (/\ nReads' = nReads + 1 /\ rd_quiet' /\ rd_startLen' >= 1
            /\ Mutated(commits'[rd_startLen'])) =>
              /\ rd_val' = commits'[rd_startLen']
              /\ buffers'[rd_slot'] = rd_val'
      ]_vars

\* C14 witness: a guard was taken, the slot mutated through it and the guard
\* dropped; a read() made afterwards returned the mutated contents.
C14_Witness ==
    /\ pcW = "idle" /\ pcRd = "idle" /\ rd_quiet
    /\ nReads >= 1 /\ nWrites = 0
    /\ Len(commits) = 1 /\ rd_startLen = 1
    /\ Mutated(rd_val) /\ rd_val = commits[1]
    /\ Finalizations = 0

\* The reader is between the return of a read() and the start of the next.
BetweenReads == nReads >= 1 /\ pcRd = "idle" /\ reader_alive

\* The step writes a slot's contents: write()'s finalize-and-construct, or a
\* mutation through a guard.
SlotWriteStep ==
    \/ pcW = "idle" /\ pcW' = "commit"
    \/ pcW = "guard" /\ pcW' = "guard" /\ ops' # ops

\* C17 (reader stability): between the return of a read() and the start of
\* the next, the slot that read() returned holds the contents it returned,
\* not finalized, and no step of the writer (any number of write() calls and
\* guard mutations) finalizes, overwrites or mutates it; every slot write of
\* the writer targets a slot other than the reader's.
C17_ReaderStability ==
    [][ /\ SlotWriteStep =>
              /\ writer_write_index # reader_read_index
              /\ buffers'[reader_read_index] = buffers[reader_read_index]
              /\ tbFin'[buffers[reader_read_index].id] = tbFin[buffers[reader_read_index].id]
        /\ BetweenReads =>
              /\ rd_slot = reader_read_index
              /\ buffers[rd_slot] = rd_val
              /\ tbFin[rd_val.id] = 0
        /\ (BetweenReads /\ BetweenReads' /\ nReads' = nReads) =>
              /\ rd_slot' = rd_slot
              /\ buffers'[rd_slot] = rd_val
              /\ tbFin'[rd_val.id] = 0
      ]_vars

\* C17 witness: since a read() returned the value of a write, the writer has
\* committed twice more and is in the middle of a further write(); the slot
\* the read() returned still holds what it returned.
C17_Witness ==
    /\ BetweenReads
    /\ rd_retLen >= 1
    /\ Len(commits) >= rd_retLen + 2
    /\ pcW = "commit"
    /\ buffers[rd_slot] = rd_val
    /\ tbFin[rd_val.id] = 0

\* C19 (monotonic freshness): numbering the commits in the order they are
\* made (the initial values are number 0), the number of the contents a
\* read() returns is never smaller than the number the previous read()
\* returned, under every interleaving; a read() that performs the exchange
\* returns a number strictly greater than the previous read()'s; the number
\* never exceeds the commits made, and the contents returned are those of
\* the commit with that number.
C19_MonotonicFreshness ==
    [][(nReads' = nReads + 1) =>
          /\ rd_no' >= rd_no
          /\ pcRd = "swap" => rd_no' > rd_no
          /\ rd_no' <= Len(commits)
          /\ rd_val' = IF rd_no' = 0 THEN InitialValue(0) ELSE commits[rd_no']
      ]_vars

\* C19 witness: a first read() returned commit 1; three more commits were
\* made before and during the second read(), which returned commit 3 while
\* commit 4 had already been made.
C19_Witness ==
    /\ nReads = 2 /\ pcRd = "idle"
    /\ rd_no = 3 /\ Len(commits) = 4
    /\ rd_val = commits[3]
    /\ ~rd_quiet

\* --------------------------------------------- both files: wait-freedom
\* Steps a call in progress still has to make (0: no call in progress).  A
\* living WriteGuard is not a call in progress: its commit is one step.
StepsLeftS == CASE pcS = "write" -> 2 [] pcS = "store" -> 1 [] pcS = "clear" -> 1 [] OTHER -> 0

StepsLeftR == CASE pcR = "read" -> 2 [] pcR = "store" -> 1 [] OTHER -> 0

StepsLeftW == CASE pcW = "commit" -> 1 [] OTHER -> 0

StepsLeftRd == CASE pcRd = "swap" -> 1 [] OTHER -> 0

\* The longest call: load the cursors, access the slot, store the cursor.
MaxCallSteps == 3

\* Whatever the other thread is doing, a call can be started by a thread that
\* is idle and still has calls to make, and the next step of a call in
\* progress (and the commit of a living guard) can be taken.
NeverWaits ==
    ~ub =>
        /\ (sender_alive /\ pcS = "idle" /\ nextVal < MaxSends) => ENABLED TrySendBegin
        /\ (sender_alive /\ pcS = "idle" /\ nClears < MaxClears) => ENABLED ClearStoreWrite
        /\ pcS = "write" => ENABLED TrySendWrite
        /\ pcS = "store" => ENABLED TrySendStore
        /\ pcS = "clear" => ENABLED ClearStoreRead
        /\ (/\ receiver_alive /\ pcR = "idle"
            /\ (available_read(write_index, read_index, size) = 0 => emptyRecv < MaxEmptyRecv))
              => ENABLED TryRecvBegin
        /\ pcR = "read" => ENABLED TryRecvRead
        /\ pcR = "store" => ENABLED TryRecvStore
        /\ sender_alive => SenderSize \in 0..Capacity
        /\ (writer_alive /\ pcW = "idle" /\ ops < MaxWrites) =>
              (ENABLED WriteFill /\ ENABLED GetMut)
        /\ pcW = "commit" => ENABLED WriteCommit
        /\ pcW = "guard" => ENABLED GuardDrop
        /\ (reader_alive /\ pcRd = "idle" /\ nReads < MaxReads) => ENABLED ReadBegin
        /\ pcRd = "swap" => ENABLED ReadSwap

\* A step changes the steps left of one thread only; it starts a call of at
\* most MaxCallSteps steps or takes a call in progress one step further.
Advances(left, left2) ==
    \/ left2 = left
    \/ left = 0 /\ left2 < MaxCallSteps
    \/ left > 0 /\ left2 = left - 1

BoundedCalls ==
    /\ Advances(StepsLeftS, StepsLeftS')
    /\ Advances(StepsLeftR, StepsLeftR')
    /\ Advances(StepsLeftW, StepsLeftW')
    /\ Advances(StepsLeftRd, StepsLeftRd')
    /\ Cardinality({i \in 1..4 :
            <<StepsLeftS, StepsLeftR, StepsLeftW, StepsLeftRd>>[i] #
            <<StepsLeftS', StepsLeftR', StepsLeftW', StepsLeftRd'>>[i]}) <= 1
    /\ (pcS # "idle" /\ pcS' = pcS) => StepsLeftS' = StepsLeftS
    /\ (StepsLeftS > 0 /\ <<pcR, pcW, pcRd>> # <<pcR', pcW', pcRd'>>) => pcS' = pcS
    /\ (StepsLeftR > 0 /\ <<pcS, pcW, pcRd>> # <<pcS', pcW', pcRd'>>) => pcR' = pcR

\* C13 (wait-freedom): every call of try_send, try_recv, size, clear, write,
\* guard commit and read finishes after a fixed number (at most 3) of its own
\* steps under any scheduling of the other thread, a thread stalled forever
\* in the middle of an operation included: in every state of a run with
\* defined behaviour a call can start and a call in progress can take its
\* next step, whatever the other thread's position, and every step of a call
\* brings it one step closer to its return; no call loops or waits.
C13_WaitFree == []NeverWaits /\ [][BoundedCalls]_vars

\* C13 witness: the consumer is stalled in the middle of its first try_recv;
\* meanwhile the producer has completed a second try_send, a try_send
\* rejected by the full channel of capacity 2, and a clear().
C13_Witness ==
    /\ pcR = "read" /\ recvd = <<>> /\ emptyRecv = 0
    /\ size = 3 /\ Len(sent) = 2 /\ rejected # {}
    /\ nClears = 1 /\ pcS = "idle" /\ raced
    /\ ~ub

=============================================================================
